---- MODULE Spec2Model ----
(***************************************************************************)
(* pymap: the map renderer (pymap/gui/render.py) and the event data model  *)
(* (pymap/model/event.py).                                                 *)
(*                                                                         *)
(* Python values (the dicts and lists the renderer walks, the value trees  *)
(* the codec builds) are tagged nodes:                                     *)
(*   [k |-> "int",  v |-> n]      an int                                   *)
(*   [k |-> "dict", v |-> f]      a dict, f a function from str keys       *)
(*   [k |-> "list", v |-> s]      a list, s a sequence (0-based in Python) *)
(* and a path segment is [t |-> "str", e |-> key] or                       *)
(* [t |-> "int", e |-> index].                                             *)
(***************************************************************************)
EXTENDS Integers, Sequences, FiniteSets, TLC

VARIABLES
    \* get_block(block, tiles, project)
    gb_pc, gb_block, gb_idx, gb_lookups, gb_warnings, gb_img,
    \* pack_colors(tileset, project)
    pk_pc, pk_tileset, pk_palettes, pk_i, pk_packed,
    \* get_attribute_by_path(value, path)
    ga_pc, ga_structure, ga_given, ga_path, ga_result, ga_first,
    \* decode(type, rom, offset, parents)
    dc_pc, dc_task, dc_out,
    \* decode(T, encode(T, v))
    rt_pc, rt_task, rt_value, rt_enc, rt_dec,
    \* the event headers encoded in one run
    en_runs

render_vars == <<gb_pc, gb_block, gb_idx, gb_lookups, gb_warnings, gb_img>>
pack_vars == <<pk_pc, pk_tileset, pk_palettes, pk_i, pk_packed>>
path_vars == <<ga_pc, ga_structure, ga_given, ga_path, ga_result, ga_first>>
codec_vars == <<dc_pc, dc_task, dc_out>>
rt_vars == <<rt_pc, rt_task, rt_value, rt_enc, rt_dec>>
vars == <<render_vars, pack_vars, path_vars, codec_vars, rt_vars, en_runs>>

----------------------------------------------------------------------------
(* Python values and indexing                                              *)

PyInt(n) == [k |-> "int", v |-> n]
PyDict(f) == [k |-> "dict", v |-> f]
PyList(s) == [k |-> "list", v |-> s]
PyNone == [k |-> "none", v |-> 0]
Key(s) == [t |-> "str", e |-> s]
Index(i) == [t |-> "int", e |-> i]

Ok(val) == [err |-> "none", val |-> val]
Raise(name) == [err |-> name, val |-> PyNone]

\* value[edge] as Python evaluates it: a dict raises KeyError on a key it does
\* not hold, a list takes an int in -len..len-1 (a negative one counts from the
\* end) and raises IndexError otherwise, anything else raises TypeError.
PyGetItem(value, edge) ==
    CASE value.k = "dict" ->
            IF edge.t = "str" /\ edge.e \in DOMAIN value.v
            THEN Ok(value.v[edge.e])
            ELSE Raise("KeyError")
      [] value.k = "list" ->
            IF edge.t # "int" THEN Raise("TypeError")
            ELSE IF edge.e >= 0 /\ edge.e < Len(value.v)
                 THEN Ok(value.v[edge.e + 1])
            ELSE IF edge.e < 0 /\ edge.e >= -Len(value.v)
                 THEN Ok(value.v[Len(value.v) + edge.e + 1])
            ELSE Raise("IndexError")
      [] OTHER -> Raise("TypeError")

RECURSIVE get_attribute_by_path_partial(_, _)
\* a walk that stops at the first absent segment and returns what it reached
get_attribute_by_path_partial(value, path) ==
    IF path = <<>> THEN Ok(value)
    ELSE LET r == PyGetItem(value, Head(path))
         IN  IF r.err # "none" THEN Ok(value)
             ELSE get_attribute_by_path_partial(r.val, Tail(path))

RECURSIVE get_attribute_by_path(_, _)
\* for edge in path: value = value[edge]; return value
get_attribute_by_path(value, path) ==
    IF path = <<>> THEN Ok(value)
    ELSE LET r == PyGetItem(value, Head(path))
         IN  IF r.err # "none" THEN r
             ELSE get_attribute_by_path(r.val, Tail(path))

----------------------------------------------------------------------------
(* get_block: render.py 86-120                                             *)

PalLimit == 13
TileLimit == 1024
MaxBlockLen == 2

PalInputs == {-14, -1, 0, 12, 13}
TileInputs == {-1, 0, 1023, 1024}
BlockEntries ==
    [palette_idx : PalInputs, tile_idx : TileInputs,
     horizontal_flip : BOOLEAN, vertical_flip : BOOLEAN]
Blocks == UNION {[1..n -> BlockEntries] : n \in 0..MaxBlockLen}

\* tiles: one list per palette, each of TileLimit tiles (get_tiles); a list
\* index i is in range when -len <= i < len, a negative one counts from the end
InRange(len, i) == i >= -len /\ i < len
Wrap(len, i) == IF i < 0 THEN len + i ELSE i

\* pal_idx = data['palette_idx']; if pal_idx >= 13: warn(...); pal_idx = 0
clamp_pal(pal_idx) == IF pal_idx >= PalLimit THEN 0 ELSE pal_idx
\* tile_idx = data['tile_idx']; if tile_idx >= 1024: warn(...); tile_idx = 0
clamp_tile(tile_idx) == IF tile_idx >= TileLimit THEN 0 ELSE tile_idx

block_warnings(data) ==
    (IF data.palette_idx >= PalLimit THEN <<[what |-> "pal", idx |-> data.palette_idx]>> ELSE <<>>)
    \o (IF data.tile_idx >= TileLimit THEN <<[what |-> "tile", idx |-> data.tile_idx]>> ELSE <<>>)

get_block_call ==
    /\ gb_pc = "idle"
    /\ \E block \in Blocks :
          /\ gb_block' = block
          /\ gb_idx' = 0
          /\ gb_lookups' = <<>>
          /\ gb_warnings' = <<>>
          /\ gb_img' = <<>>
          /\ gb_pc' = "loop"
    /\ UNCHANGED <<pack_vars, path_vars, codec_vars, rt_vars, en_runs>>

\* one iteration of `for idx, data in enumerate(block)`
get_block_entry ==
    /\ gb_pc = "loop"
    /\ gb_idx < Len(gb_block)
    /\ LET data == gb_block[gb_idx + 1]
           x == gb_idx % 2
           y == (gb_idx \div 2) % 2
           pal_idx == clamp_pal(data.palette_idx)
           tile_idx == clamp_tile(data.tile_idx)
       IN  /\ gb_warnings' = gb_warnings \o block_warnings(data)
           /\ gb_lookups' = Append(gb_lookups, [pal_idx |-> pal_idx, tile_idx |-> tile_idx])
           /\ IF InRange(PalLimit, pal_idx) /\ InRange(TileLimit, tile_idx)
              THEN /\ gb_img' = Append(gb_img,
                          [tile |-> <<Wrap(PalLimit, pal_idx), Wrap(TileLimit, tile_idx)>>,
                           hflip |-> data.horizontal_flip,
                           vflip |-> data.vertical_flip,
                           at |-> <<8 * x, 8 * y>>])
                   /\ gb_idx' = gb_idx + 1
                   /\ gb_pc' = "loop"
              ELSE /\ gb_pc' = "IndexError"
                   /\ UNCHANGED <<gb_img, gb_idx>>
    /\ UNCHANGED <<gb_block, pack_vars, path_vars, codec_vars, rt_vars, en_runs>>

get_block_return ==
    /\ gb_pc = "loop"
    /\ gb_idx = Len(gb_block)
    /\ gb_pc' = "returned"
    /\ UNCHANGED <<gb_block, gb_idx, gb_lookups, gb_warnings, gb_img, pack_vars, path_vars, codec_vars, rt_vars, en_runs>>

----------------------------------------------------------------------------
(* pack_colors: render.py 197-223                                          *)

PaletteLen == 16
MaxPalettes == 2

Color(r, g, b) == PyDict([c \in {"red", "green", "blue"} |->
                    PyInt(CASE c = "red" -> r [] c = "green" -> g [] OTHER -> b)])
ColorInputs == {Color(1, 2, 3), Color(31, 0, 7)}
PaletteInputs ==
    {PyList([i \in 1..n |-> IF i = p THEN c ELSE d]) :
        n \in {PaletteLen - 1, PaletteLen, PaletteLen + 1},
        p \in {1, PaletteLen}, c \in ColorInputs, d \in ColorInputs}
\* project.config['pymap']['tileset']['palettes_path']
palettes_path == <<Key("palettes")>>
TilesetInputs ==
    {PyDict([f \in {"palettes"} |-> PyList(ps)]) :
        ps \in UNION {[1..n -> PaletteInputs] : n \in 0..MaxPalettes}}

channels == <<"red", "blue", "green">>

RECURSIVE pack_palette(_)
\* for color in palette: for channel in (...): packed_palette.append(color[channel] << 3)
pack_palette(colors) ==
    IF colors = <<>> THEN <<>>
    ELSE [i \in 1..Len(channels) |->
            PyGetItem(Head(colors), Key(channels[i])).val.v * 8]
         \o pack_palette(Tail(colors))

pack_colors_call ==
    /\ pk_pc = "idle"
    /\ \E tileset \in TilesetInputs :
          /\ pk_tileset' = tileset
          /\ pk_palettes' = get_attribute_by_path(tileset, palettes_path).val.v
          /\ pk_i' = 0
          /\ pk_packed' = <<>>
          /\ pk_pc' = "loop"
    /\ UNCHANGED <<render_vars, path_vars, codec_vars, rt_vars, en_runs>>

\* one iteration of `for palette in palettes`
pack_colors_palette ==
    /\ pk_pc = "loop"
    /\ pk_i < Len(pk_palettes)
    /\ LET palette == pk_palettes[pk_i + 1].v
       IN  IF Len(palette) = PaletteLen
           THEN /\ pk_packed' = Append(pk_packed, pack_palette(palette))
                /\ pk_i' = pk_i + 1
                /\ pk_pc' = "loop"
           ELSE /\ pk_pc' = "AssertionError"
                /\ UNCHANGED <<pk_packed, pk_i>>
    /\ UNCHANGED <<pk_tileset, pk_palettes, render_vars, path_vars, codec_vars, rt_vars, en_runs>>

pack_colors_return ==
    /\ pk_pc = "loop"
    /\ pk_i = Len(pk_palettes)
    /\ pk_pc' = "returned"
    /\ UNCHANGED <<pk_tileset, pk_palettes, pk_i, pk_packed, render_vars, path_vars, codec_vars, rt_vars, en_runs>>

----------------------------------------------------------------------------
(* get_attribute_by_path: render.py 226-230                                *)

MaxPathLen == 3

StructureInputs ==
    { PyDict([f \in {"a", "n"} |->
         IF f = "a"
         THEN PyDict([g \in {"b", "c"} |->
                 IF g = "b" THEN PyList(<<PyInt(7), PyInt(8)>>) ELSE PyInt(1)])
         ELSE PyInt(0)]),
      PyList(<<PyDict([f \in {"a"} |-> PyInt(5)]), PyList(<<>>)>>),
      PyInt(3) }
EdgeInputs == {Key("a"), Key("b"), Key("c"), Index(0), Index(1), Index(-1), Index(2)}
PathInputs == UNION {[1..n -> EdgeInputs] : n \in 0..MaxPathLen}

get_attribute_call ==
    /\ ga_pc = "idle"
    /\ \E value \in StructureInputs, path \in PathInputs :
          /\ ga_structure' = value
          /\ ga_given' = value
          /\ ga_path' = path
          /\ ga_first' = get_attribute_by_path(value, path)
          /\ ga_result' = Raise("pending")
          /\ ga_pc' = "once"
    /\ UNCHANGED <<render_vars, pack_vars, codec_vars, rt_vars, en_runs>>

\* the same call again, on the structure as the first call left it
get_attribute_again ==
    /\ ga_pc = "once"
    /\ ga_result' = get_attribute_by_path(ga_structure, ga_path)
    /\ ga_pc' = "twice"
    /\ UNCHANGED <<ga_structure, ga_given, ga_path, ga_first, render_vars, pack_vars, codec_vars, rt_vars, en_runs>>

----------------------------------------------------------------------------
(* The event model: event.py 4-140                                         *)
(* A field is <<name, type name>>; a bitfield member is <<name, width>>    *)
(* (the constants table, None throughout, is left out).                    *)

person_type == [kind |-> "Structure", fields |-> <<
    <<"target_index", "u8">>,
    <<"picture", "u8">>,
    <<"field_2", "u8">>,
    <<"field_3", "u8">>,
    <<"x", "s16">>,
    <<"y", "s16">>,
    <<"level", "u8">>,
    <<"behaviour", "u8">>,
    <<"behaviour_range", "u8">>,
    <<"field_B", "u8">>,
    <<"is_trainer", "u8">>,
    <<"field_D", "u8">>,
    <<"alert_radius", "u16">>,
    <<"script", "ow_script_pointer">>,
    <<"flag", "u16">>,
    <<"field_16", "u16">> >>]

trigger_type == [kind |-> "Structure", fields |-> <<
    <<"x", "s16">>,
    <<"y", "s16">>,
    <<"level", "u8">>,
    <<"field_5", "u8">>,
    <<"var", "u16">>,
    <<"value", "u16">>,
    <<"field_A", "u8">>,
    <<"field_B", "u8">>,
    <<"script", "ow_script_pointer">> >>]

warp_type == [kind |-> "Structure", fields |-> <<
    <<"x", "s16">>,
    <<"y", "s16">>,
    <<"level", "u8">>,
    <<"target_warp_idx", "u8">>,
    <<"target_map", "u8">>,
    <<"target_bank", "u8">> >>]

\* the same bitfield with an 8-bit flag declared as 4 bits
signpost_item_type_narrow_flag == [kind |-> "BitfieldType", backing |-> "u32", members |-> <<
    <<"item", 16>>,
    <<"flag", 4>>,
    <<"amount", 8>> >>]

signpost_item_type == [kind |-> "BitfieldType", backing |-> "u32", members |-> <<
    <<"item", 16>>,
    <<"flag", 8>>,
    <<"amount", 8>> >>]

\* the discriminant with its comparison off by one
signpost_value_name_get_le(project, context, parents) ==
    IF parents = <<>> THEN Raise("IndexError")
    ELSE LET t == PyGetItem(parents[Len(parents)], Key("type"))
         IN  IF t.err # "none" THEN t
             ELSE Ok(IF t.val.v <= 5 THEN "script" ELSE "item")

\* lambda project, context, parents: 'script' if parents[-1]['type'] < 5 else 'item'
signpost_value_name_get(project, context, parents) ==
    IF parents = <<>> THEN Raise("IndexError")
    ELSE LET t == PyGetItem(parents[Len(parents)], Key("type"))
         IN  IF t.err # "none" THEN t
             ELSE Ok(IF t.val.v < 5 THEN "script" ELSE "item")

signpost_value_type == [kind |-> "UnionType",
    subtypes |-> [item |-> "event.signpost_item", script |-> "ow_script_pointer"]]

\* the same structure with 'value' declared ahead of 'type'
signpost_type_value_first == [kind |-> "Structure", fields |-> <<
    <<"x", "s16">>,
    <<"y", "s16">>,
    <<"level", "u8">>,
    <<"value", "event.signpost_value">>,
    <<"type", "u8">>,
    <<"field_6", "u8">>,
    <<"field_7", "u8">> >>]

signpost_type == [kind |-> "Structure", fields |-> <<
    <<"x", "s16">>,
    <<"y", "s16">>,
    <<"level", "u8">>,
    <<"type", "u8">>,
    <<"field_6", "u8">>,
    <<"field_7", "u8">>,
    <<"value", "event.signpost_value">> >>]

person_array_type == [kind |-> "VariableSizeArrayType", datatype |-> "event.person",
    size_path |-> [n_parents |-> 1, path |-> <<Key("person_cnt")>>]]

warp_array_type == [kind |-> "VariableSizeArrayType", datatype |-> "event.warp",
    size_path |-> [n_parents |-> 1, path |-> <<Key("warp_cnt")>>]]

trigger_array_type == [kind |-> "VariableSizeArrayType", datatype |-> "event.trigger",
    size_path |-> [n_parents |-> 1, path |-> <<Key("trigger_cnt")>>]]

signpost_array_type == [kind |-> "VariableSizeArrayType", datatype |-> "event.signpost",
    size_path |-> [n_parents |-> 1, path |-> <<Key("signpost_cnt")>>]]

person_array_pointer_type == [kind |-> "PointerType", datatype |-> "event.person_array"]
warp_array_pointer_type == [kind |-> "PointerType", datatype |-> "event.warp_array"]
trigger_array_pointer_type == [kind |-> "PointerType", datatype |-> "event.trigger_array"]
signpost_array_pointer_type == [kind |-> "PointerType", datatype |-> "event.signpost_array"]

\* a label that numbers the instance by the header's person count
person_array_pointer_label_by_instance(project, context, parents) ==
    <<IF parents # <<>> /\ PyGetItem(parents[Len(parents)], Key("person_cnt")) = Ok(PyInt(0))
      THEN "persons_0" ELSE "persons", 2, FALSE>>

\* lambda project, context, parents: ('persons', 2, False)
person_array_pointer_label(project, context, parents) == <<"persons", 2, FALSE>>
\* lambda project, context, parents: ('warps', 2, False)
warp_array_pointer_label(project, context, parents) == <<"warps", 2, FALSE>>
\* lambda project, context, parents: ('triggers', 2, False)
trigger_array_pointer_label(project, context, parents) == <<"triggers", 2, FALSE>>
\* lambda project, context, parents: ('signposts', 2, False)
signpost_array_pointer_label(project, context, parents) == <<"signposts", 2, FALSE>>

event_header_type == [kind |-> "Structure", fields |-> <<
    <<"person_cnt", "u8">>,
    <<"warp_cnt", "u8">>,
    <<"trigger_cnt", "u8">>,
    <<"signpost_cnt", "u8">>,
    <<"persons", "event.person_array_pointer">>,
    <<"warps", "event.warp_array_pointer">>,
    <<"triggers", "event.trigger_array_pointer">>,
    <<"signposts", "event.signpost_array_pointer">> >>]

default_model ==
    [name \in {"event.person", "event.warp", "event.trigger", "event.signpost",
               "event.signpost_item", "event.signpost_value",
               "event.person_array", "event.warp_array", "event.trigger_array",
               "event.signpost_array", "event.person_array_pointer",
               "event.warp_array_pointer", "event.trigger_array_pointer",
               "event.signpost_array_pointer", "event.event_header"} |->
        CASE name = "event.person" -> person_type
          [] name = "event.warp" -> warp_type
          [] name = "event.trigger" -> trigger_type
          [] name = "event.signpost" -> signpost_type
          [] name = "event.signpost_item" -> signpost_item_type
          [] name = "event.signpost_value" -> signpost_value_type
          [] name = "event.person_array" -> person_array_type
          [] name = "event.warp_array" -> warp_array_type
          [] name = "event.trigger_array" -> trigger_array_type
          [] name = "event.signpost_array" -> signpost_array_type
          [] name = "event.person_array_pointer" -> person_array_pointer_type
          [] name = "event.warp_array_pointer" -> warp_array_pointer_type
          [] name = "event.trigger_array_pointer" -> trigger_array_pointer_type
          [] name = "event.signpost_array_pointer" -> signpost_array_pointer_type
          [] name = "event.event_header" -> event_header_type]

\* the functions the model attaches to its union and pointer types
name_get(tname, project, context, parents) ==
    signpost_value_name_get(project, context, parents)

label_get(tname, project, context, parents) ==
    CASE tname = "event.person_array_pointer" -> person_array_pointer_label(project, context, parents)
      [] tname = "event.warp_array_pointer" -> warp_array_pointer_label(project, context, parents)
      [] tname = "event.trigger_array_pointer" -> trigger_array_pointer_label(project, context, parents)
      [] tname = "event.signpost_array_pointer" -> signpost_array_pointer_label(project, context, parents)

----------------------------------------------------------------------------
(* The codec the model is written for (agb.types), after its contract:     *)
(* the registry, decode, encode.  Every decode and encode keeps a log of   *)
(* what it resolved and evaluated, in order.                               *)

ScalarNames == {"u8", "s8", "u16", "s16", "u32", "s32"}
ScalarWidth(name) ==
    CASE name \in {"u8", "s8"} -> 1 [] name \in {"u16", "s16"} -> 2 [] OTHER -> 4
ScalarSigned(name) == name \in {"s8", "s16", "s32"}

\* the registry holds the primitive scalars and the exported declarations
resolve(name) ==
    IF name \in ScalarNames
    THEN [err |-> "none", type |-> [kind |-> "Scalar", width |-> ScalarWidth(name),
                                    signed |-> ScalarSigned(name)]]
    ELSE IF name \in DOMAIN default_model
    THEN [err |-> "none", type |-> default_model[name]]
    ELSE [err |-> "UnknownTypeError", type |-> [kind |-> "none"]]

RECURSIVE Pow2(_)
Pow2(n) == IF n = 0 THEN 1 ELSE 2 * Pow2(n - 1)

RECURSIVE LittleEndian(_)
LittleEndian(bytes) ==
    IF bytes = <<>> THEN 0 ELSE Head(bytes) + 256 * LittleEndian(Tail(bytes))

\* an integer of Len(bytes) bytes, least significant first, two's complement
\* when signed
scalar_value(bytes, signed) ==
    LET u == LittleEndian(bytes)
        half == Pow2(8 * Len(bytes) - 1)
    IN  IF signed /\ u >= half THEN u - half - half ELSE u

RECURSIVE scalar_bytes(_, _)
\* the width bytes of n modulo 2^(8*width), least significant first
scalar_bytes(n, width) ==
    IF width = 0 THEN <<>>
    ELSE <<n % 256>> \o scalar_bytes((n - (n % 256)) \div 256, width - 1)

\* bit i (0 the lowest) of the integer held little-endian in bytes
Bit(bytes, i) == (bytes[(i \div 8) + 1] \div Pow2(i % 8)) % 2

RECURSIVE extract_bits(_, _, _)
\* the width bits of the backing integer from bit lo upwards, as a number
extract_bits(bytes, lo, width) ==
    IF width = 0 THEN 0
    ELSE Bit(bytes, lo) + 2 * extract_bits(bytes, lo + 1, width - 1)

RECURSIVE members_width(_)
members_width(members) ==
    IF members = <<>> THEN 0 ELSE Head(members)[2] + members_width(Tail(members))

\* the lowest bit of member i: the widths of the members declared before it
member_lo(members, i) == members_width(SubSeq(members, 1, i - 1))

decode_bitfield(members, bytes) ==
    PyDict([name \in {members[i][1] : i \in 1..Len(members)} |->
        LET i == CHOOSE j \in 1..Len(members) : members[j][1] = name
        IN  PyInt(extract_bits(bytes, member_lo(members, i), members[i][2]))])

\* the absolute ROM address of a buffer offset and back (the caller's
\* address translation: the cartridge is mapped at 0x08000000)
RomBase == 134217728
romAddressToOffset(address) == address - RomBase

Tagged(name, val) == [k |-> "union", tag |-> name, v |-> val]
Decoded(val, end, log) == [err |-> "none", val |-> val, end |-> end, log |-> log]
Failed(err, log) == [err |-> err, val |-> PyNone, end |-> 0, log |-> log]

\* the ancestor a size path starts from, n_parents frames up, then the path
resolve_size(size_path, parents) ==
    IF size_path.n_parents > Len(parents) THEN Raise("IndexError")
    ELSE get_attribute_by_path(parents[Len(parents) - size_path.n_parents + 1],
                               size_path.path)

RECURSIVE decode(_, _, _, _, _, _)
RECURSIVE decode_fields(_, _, _, _, _, _, _, _, _)
RECURSIVE decode_elements(_, _, _, _, _, _, _, _, _)

\* Structure: the fields in declared order, each decoded with the structure
\* as decoded so far on top of the parents
decode_fields(fields, i, rom, off, env, parents, deep, partial, log) ==
    IF i > Len(fields) THEN Decoded(PyDict(partial), off, log)
    ELSE LET d == decode(fields[i][2], rom, off, env, Append(parents, PyDict(partial)), deep)
         IN  IF d.err # "none" THEN Failed(d.err, log \o d.log)
             ELSE decode_fields(fields, i + 1, rom, d.end, env, parents, deep,
                                partial @@ (fields[i][1] :> d.val), log \o d.log)

\* VariableSizeArrayType: n elements in sequence; the log closes with how
\* many were decoded
decode_elements(tname, n, rom, off, env, parents, deep, partial, log) ==
    LET t == resolve(tname).type
        closing(err) == <<[ev |-> "array", array |-> tname, n |-> n,
                           decoded |-> Len(partial), err |-> err]>>
    IN  IF Len(partial) = n THEN Decoded(PyList(partial), off, log \o closing("none"))
        ELSE LET d == decode(t.datatype, rom, off, env, Append(parents, PyList(partial)), deep)
             IN  IF d.err # "none" THEN Failed(d.err, log \o d.log \o closing(d.err))
                 ELSE decode_elements(tname, n, rom, d.end, env, parents, deep,
                                      Append(partial, d.val), log \o d.log)

decode(tname, rom, off, env, parents, deep) ==
    LET r == resolve(tname)
        t == r.type
        ev == <<[ev |-> "resolve", name |-> tname, err |-> r.err]>>
    IN  IF r.err # "none" THEN Failed(r.err, ev)
        ELSE CASE t.kind = "Scalar" ->
                IF off + t.width > Len(rom) THEN Failed("OutOfBoundsError", ev)
                ELSE Decoded(PyInt(scalar_value(SubSeq(rom, off + 1, off + t.width), t.signed)),
                             off + t.width, ev)
          [] t.kind = "Structure" ->
                decode_fields(t.fields, 1, rom, off, env, parents, deep, <<>>, ev)
          [] t.kind = "BitfieldType" ->
                LET width == ScalarWidth(t.backing)
                IN  IF members_width(t.members) > 8 * width
                    THEN Failed("BitfieldOverflowError", ev)
                    ELSE IF off + width > Len(rom) THEN Failed("OutOfBoundsError", ev)
                    ELSE Decoded(decode_bitfield(t.members, SubSeq(rom, off + 1, off + width)),
                                 off + width, ev)
          [] t.kind = "UnionType" ->
                LET n == name_get(tname, env.project, env.context, parents)
                    e2 == ev \o <<[ev |-> "name_get", union |-> tname, parents |-> parents,
                                   err |-> n.err, name |-> n.val]>>
                IN  IF n.err # "none" THEN Failed("PathResolutionError", e2)
                    ELSE IF n.val \notin DOMAIN t.subtypes
                    THEN Failed("UnknownVariantError", e2)
                    ELSE LET d == decode(t.subtypes[n.val], rom, off, env, parents, deep)
                         IN  IF d.err # "none" THEN Failed(d.err, e2 \o d.log)
                             ELSE Decoded(Tagged(n.val, d.val), d.end, e2 \o d.log)
          [] t.kind = "VariableSizeArrayType" ->
                LET n == resolve_size(t.size_path, parents)
                    e2 == ev \o <<[ev |-> "size", array |-> tname, parents |-> parents,
                                   path |-> t.size_path.path, err |-> n.err, n |-> n.val]>>
                IN  IF n.err # "none" THEN Failed("PathResolutionError", e2)
                    ELSE IF n.val.v < 0 THEN Failed("NegativeLengthError", e2)
                    ELSE decode_elements(tname, n.val.v, rom, off, env, parents, deep, <<>>, e2)
          [] t.kind = "PointerType" ->
                IF off + 4 > Len(rom) THEN Failed("OutOfBoundsError", ev)
                ELSE LET address == LittleEndian(SubSeq(rom, off + 1, off + 4))
                     IN  IF ~deep THEN Decoded(PyInt(address), off + 4, ev)
                         ELSE LET d == decode(t.datatype, rom, romAddressToOffset(address),
                                              env, parents, deep)
                              IN  IF d.err # "none" THEN Failed(d.err, ev \o d.log)
                                  ELSE Decoded(d.val, off + 4, ev \o d.log)

Encoded(bytes, relocs, log) == [err |-> "none", bytes |-> bytes, relocs |-> relocs, log |-> log]
Refused(err, log) == [err |-> err, bytes |-> <<>>, relocs |-> <<>>, log |-> log]

\* bit pos of the backing integer when the members hold the values of value
member_bit(members, value, pos) ==
    IF \E i \in 1..Len(members) :
          pos >= member_lo(members, i) /\ pos < member_lo(members, i) + members[i][2]
    THEN LET i == CHOOSE j \in 1..Len(members) :
                    pos >= member_lo(members, j) /\ pos < member_lo(members, j) + members[j][2]
         IN  (value.v[members[i][1]].v \div Pow2(pos - member_lo(members, i))) % 2
    ELSE 0

RECURSIVE pack_bits(_, _, _, _)
\* bits lo..lo+n-1 of the backing integer as a number
pack_bits(members, value, lo, n) ==
    IF n = 0 THEN 0
    ELSE member_bit(members, value, lo) + 2 * pack_bits(members, value, lo + 1, n - 1)

encode_bitfield(members, value, width) ==
    [b \in 1..width |-> pack_bits(members, value, 8 * (b - 1), 8)]

bitfield_shaped(members, value) ==
    /\ value.k = "dict"
    /\ DOMAIN value.v = {members[i][1] : i \in 1..Len(members)}
    /\ \A i \in 1..Len(members) :
          LET m == value.v[members[i][1]]
          IN  m.k = "int" /\ m.v >= 0 /\ m.v < Pow2(members[i][2])

scalar_shaped(t, value) ==
    /\ value.k = "int"
    /\ IF t.signed
       THEN value.v >= -Pow2(8 * t.width - 1) /\ value.v < Pow2(8 * t.width - 1)
       ELSE value.v >= 0 /\ (t.width = 4 \/ value.v < Pow2(8 * t.width))

RECURSIVE encode(_, _, _, _)
RECURSIVE encode_fields(_, _, _, _, _, _)
RECURSIVE encode_elements(_, _, _, _, _, _)

\* Structure: the fields' encodings concatenated in declared order
encode_fields(fields, i, value, env, parents, acc) ==
    IF i > Len(fields) THEN acc
    ELSE LET e == encode(fields[i][2], value.v[fields[i][1]], env, Append(parents, value))
         IN  IF e.err # "none" THEN Refused(e.err, acc.log \o e.log)
             ELSE encode_fields(fields, i + 1, value, env, parents,
                     Encoded(acc.bytes \o e.bytes, acc.relocs \o e.relocs, acc.log \o e.log))

encode_elements(tname, i, value, env, parents, acc) ==
    IF i > Len(value.v) THEN acc
    ELSE LET e == encode(tname, value.v[i], env, Append(parents, value))
         IN  IF e.err # "none" THEN Refused(e.err, acc.log \o e.log)
             ELSE encode_elements(tname, i + 1, value, env, parents,
                     Encoded(acc.bytes \o e.bytes, acc.relocs \o e.relocs, acc.log \o e.log))

encode(tname, value, env, parents) ==
    LET r == resolve(tname)
        t == r.type
        ev == <<[ev |-> "resolve", name |-> tname, err |-> r.err]>>
    IN  IF r.err # "none" THEN Refused(r.err, ev)
        ELSE CASE t.kind = "Scalar" ->
                IF ~scalar_shaped(t, value) THEN Refused("SchemaMismatchError", ev)
                ELSE Encoded(scalar_bytes(value.v, t.width), <<>>, ev)
          [] t.kind = "Structure" ->
                IF value.k # "dict"
                   \/ DOMAIN value.v # {t.fields[i][1] : i \in 1..Len(t.fields)}
                THEN Refused("SchemaMismatchError", ev)
                ELSE encode_fields(t.fields, 1, value, env, parents, Encoded(<<>>, <<>>, ev))
          [] t.kind = "BitfieldType" ->
                IF members_width(t.members) > 8 * ScalarWidth(t.backing)
                THEN Refused("BitfieldOverflowError", ev)
                ELSE IF ~bitfield_shaped(t.members, value)
                THEN Refused("SchemaMismatchError", ev)
                ELSE Encoded(encode_bitfield(t.members, value, ScalarWidth(t.backing)), <<>>, ev)
          [] t.kind = "UnionType" ->
                LET n == name_get(tname, env.project, env.context, parents)
                    e2 == ev \o <<[ev |-> "name_get", union |-> tname, parents |-> parents,
                                   err |-> n.err, name |-> n.val]>>
                IN  IF n.err # "none" THEN Refused("PathResolutionError", e2)
                    ELSE IF n.val \notin DOMAIN t.subtypes
                    THEN Refused("UnknownVariantError", e2)
                    ELSE IF value.k # "union" THEN Refused("SchemaMismatchError", e2)
                    ELSE IF value.tag # n.val THEN Refused("VariantMismatchError", e2)
                    ELSE LET e == encode(t.subtypes[n.val], value.v, env, parents)
                         IN  IF e.err # "none" THEN Refused(e.err, e2 \o e.log)
                             ELSE Encoded(e.bytes, e.relocs, e2 \o e.log)
          [] t.kind = "VariableSizeArrayType" ->
                LET n == resolve_size(t.size_path, parents)
                    e2 == ev \o <<[ev |-> "size", array |-> tname, parents |-> parents,
                                   path |-> t.size_path.path, err |-> n.err, n |-> n.val]>>
                IN  IF n.err # "none" THEN Refused("PathResolutionError", e2)
                    ELSE IF value.k # "list" \/ Len(value.v) # n.val.v
                    THEN Refused("SchemaMismatchError", e2)
                    ELSE encode_elements(t.datatype, 1, value, env, parents,
                                         Encoded(<<>>, <<>>, e2))
          [] t.kind = "PointerType" ->
                \* a label in place of the address; the target goes to its own
                \* section, which the linker places
                LET label == label_get(tname, env.project, env.context, parents)
                    e2 == ev \o <<[ev |-> "label", pointer |-> tname, label |-> label]>>
                    e == encode(t.datatype, value, env, parents)
                IN  IF e.err # "none" THEN Refused(e.err, e2 \o e.log)
                    ELSE Encoded(<<0, 0, 0, 0>>,
                                 <<[label |-> label, section |-> e.bytes]>> \o e.relocs,
                                 e2 \o e.log)

----------------------------------------------------------------------------
(* Decoding ROM images                                                     *)

MaxCnt == 2

\* the project and the context (the path of labels so far) of a top-level call
Env == [project |-> "project", context |-> <<>>]

FillBytes == {0, 4, 5, 255}
ByteSamples == {0, 1, 128, 255}

RegionCap == MaxCnt * 24
RegionAt(r) == 20 + (r - 1) * RegionCap
\* cnt elements of esize bytes, element i filled with fills[i % 2 + 1]
Region(esize, cnt, fills) ==
    [j \in 1..RegionCap |->
        IF j <= esize * cnt THEN fills[(((j - 1) \div esize) % 2) + 1] ELSE 0]
\* an event header at offset 0 and its four arrays behind it
HeaderRom(cnts, fills) ==
    cnts
    \o scalar_bytes(RomBase + RegionAt(1), 4) \o scalar_bytes(RomBase + RegionAt(2), 4)
    \o scalar_bytes(RomBase + RegionAt(3), 4) \o scalar_bytes(RomBase + RegionAt(4), 4)
    \o Region(24, cnts[1], fills) \o Region(8, cnts[2], fills)
    \o Region(16, cnts[3], fills) \o Region(12, cnts[4], fills)

HeaderTasks ==
    {[type |-> "event.event_header", rom |-> HeaderRom(c, f), env |-> Env, parents |-> <<>>, deep |-> d] :
        c \in [1..4 -> 0..MaxCnt], f \in [1..2 -> FillBytes], d \in BOOLEAN}
ItemTasks ==
    {[type |-> "event.signpost_item", rom |-> w, env |-> Env, parents |-> <<>>, deep |-> FALSE] :
        w \in [1..4 -> ByteSamples]}
DecodeTasks == HeaderTasks \cup ItemTasks

decode_call ==
    /\ dc_pc = "idle"
    /\ \E task \in DecodeTasks :
          /\ dc_task' = task
          /\ dc_out' = decode(task.type, task.rom, 0, task.env, task.parents, task.deep)
          /\ dc_pc' = "decoded"
    /\ UNCHANGED <<render_vars, pack_vars, path_vars, rt_vars, en_runs>>

----------------------------------------------------------------------------
(* Values shaped for a type, and the encode runs                           *)

Samples == 1..4

scalar_sample(t, sel) ==
    IF t.signed
    THEN CASE sel = 1 -> -Pow2(8 * t.width - 1) [] sel = 2 -> -1 [] sel = 3 -> 5
           [] OTHER -> Pow2(8 * t.width - 1) - 1
    ELSE CASE sel = 1 -> 0 [] sel = 2 -> 4 [] sel = 3 -> 5
           [] OTHER -> Pow2(8 * t.width - 1) - 1 + Pow2(8 * t.width - 1)

member_sample(width, sel) ==
    CASE sel = 1 -> 0 [] sel = 2 -> 1 [] sel = 3 -> 5 [] OTHER -> Pow2(width) - 1

RECURSIVE sample(_, _, _, _)
RECURSIVE sample_fields(_, _, _, _, _, _)

sample_fields(fields, i, sel, env, parents, partial) ==
    IF i > Len(fields) THEN PyDict(partial)
    ELSE sample_fields(fields, i + 1, sel, env, parents,
            partial @@ (fields[i][1] :>
                sample(fields[i][2], sel, env, Append(parents, PyDict(partial)))))

\* the value of selection sel shaped for the type tname under the parents; a
\* name the registry does not hold is given an address
sample(tname, sel, env, parents) ==
    LET r == resolve(tname)
        t == r.type
    IN  IF r.err # "none" THEN PyInt(RomBase)
        ELSE CASE t.kind = "Scalar" -> PyInt(scalar_sample(t, sel))
          [] t.kind = "Structure" -> sample_fields(t.fields, 1, sel, env, parents, <<>>)
          [] t.kind = "BitfieldType" ->
                PyDict([name \in {t.members[i][1] : i \in 1..Len(t.members)} |->
                    LET i == CHOOSE j \in 1..Len(t.members) : t.members[j][1] = name
                    IN  PyInt(member_sample(t.members[i][2], sel))])
          [] t.kind = "UnionType" ->
                LET n == name_get(tname, env.project, env.context, parents).val
                IN  Tagged(n, sample(t.subtypes[n], sel, env, parents))
          [] t.kind = "VariableSizeArrayType" ->
                LET n == resolve_size(t.size_path, parents).val.v
                IN  PyList([i \in 1..n |-> sample(t.datatype, sel, env, parents)])
          [] t.kind = "PointerType" -> sample(t.datatype, sel, env, parents)

Counts(cnts) ==
    [f \in {"person_cnt", "warp_cnt", "trigger_cnt", "signpost_cnt"} |->
        PyInt(CASE f = "person_cnt" -> cnts[1] [] f = "warp_cnt" -> cnts[2]
                [] f = "trigger_cnt" -> cnts[3] [] OTHER -> cnts[4])]

\* an event header with its four arrays in place of the pointers
HeaderValue(cnts, sel) ==
    LET up == <<PyDict(Counts(cnts))>>
    IN  PyDict(Counts(cnts)
               @@ ("persons" :> sample("event.person_array", sel, Env, up))
               @@ ("warps" :> sample("event.warp_array", sel, Env, up))
               @@ ("triggers" :> sample("event.trigger_array", sel, Env, up))
               @@ ("signposts" :> sample("event.signpost_array", sel, Env, up)))

RoundTripTasks ==
    {[type |-> T, parents |-> <<>>, sel |-> s] :
        T \in {"event.person", "event.warp", "event.trigger", "event.signpost",
               "event.signpost_item"}, s \in Samples}
    \cup {[type |-> "event.signpost_value",
           parents |-> <<PyDict([f \in {"type"} |-> PyInt(t)])>>, sel |-> s] :
        t \in {0, 4, 5, 255}, s \in Samples}
    \cup {[type |-> T, parents |-> <<PyDict(Counts(<<n, n, n, n>>))>>, sel |-> s] :
        T \in {"event.person_array", "event.warp_array", "event.trigger_array",
               "event.signpost_array"}, n \in 0..MaxCnt, s \in Samples}

\* encode(T, v)
encode_call ==
    /\ rt_pc = "idle"
    /\ \E task \in RoundTripTasks :
          LET v == sample(task.type, task.sel, Env, task.parents)
          IN  /\ rt_task' = task
              /\ rt_value' = v
              /\ rt_enc' = encode(task.type, v, Env, task.parents)
              /\ rt_dec' = Failed("pending", <<>>)
              /\ rt_pc' = "encoded"
    /\ UNCHANGED <<render_vars, pack_vars, path_vars, codec_vars, en_runs>>

\* decode(T, encode(T, v)); an encode that failed leaves nothing to decode
decode_back ==
    /\ rt_pc = "encoded"
    /\ rt_dec' = IF rt_enc.err # "none" THEN Failed(rt_enc.err, <<>>)
                 ELSE decode(rt_task.type, rt_enc.bytes, 0, Env, rt_task.parents, FALSE)
    /\ rt_pc' = "back"
    /\ UNCHANGED <<rt_task, rt_value, rt_enc, render_vars, pack_vars, path_vars,
                   codec_vars, en_runs>>

MaxHeaders == 2

EncodeCnts == {<<0, 0, 0, 0>>, <<0, 1, 0, 0>>, <<1, 0, 0, 0>>, <<0, MaxCnt, 0, 1>>}
EncodeEnvs == [project : {"p1", "p2"}, context : {<<>>, <<"header">>}]

\* one more event header encoded in the same run
encode_header ==
    /\ Len(en_runs) < MaxHeaders
    /\ \E cnts \in EncodeCnts, env \in EncodeEnvs :
          LET v == HeaderValue(cnts, 3)
          IN  en_runs' = Append(en_runs,
                  [value |-> v, env |-> env,
                   out |-> encode("event.event_header", v, env, <<>>)])
    /\ UNCHANGED <<render_vars, pack_vars, path_vars, codec_vars, rt_vars>>

----------------------------------------------------------------------------
Init ==
    /\ gb_pc = "idle" /\ gb_block = <<>> /\ gb_idx = 0
    /\ gb_lookups = <<>> /\ gb_warnings = <<>> /\ gb_img = <<>>
    /\ pk_pc = "idle" /\ pk_tileset = PyNone /\ pk_palettes = <<>>
    /\ pk_i = 0 /\ pk_packed = <<>>
    /\ ga_pc = "idle" /\ ga_structure = PyNone /\ ga_given = PyNone
    /\ ga_path = <<>> /\ ga_result = Raise("pending") /\ ga_first = Raise("pending")
    /\ dc_pc = "idle" /\ dc_task = PyNone /\ dc_out = Failed("pending", <<>>)
    /\ rt_pc = "idle" /\ rt_task = PyNone /\ rt_value = PyNone
    /\ rt_enc = Refused("pending", <<>>) /\ rt_dec = Failed("pending", <<>>)
    /\ en_runs = <<>>

NextDecode == decode_call
Spec == Init /\ [][NextDecode]_vars

NextRoundTrip == encode_call \/ decode_back
SpecRoundTrip == Init /\ [][NextRoundTrip]_vars

NextEncode == encode_header
SpecEncode == Init /\ [][NextEncode]_vars

NextBlock == get_block_call \/ get_block_entry \/ get_block_return
SpecBlock == Init /\ [][NextBlock]_vars

NextPack == pack_colors_call \/ pack_colors_palette \/ pack_colors_return
SpecPack == Init /\ [][NextPack]_vars

NextPath == get_attribute_call \/ get_attribute_again
SpecPath == Init /\ [][NextPath]_vars

----------------------------------------------------------------------------
(* Properties of the renderer                                              *)

\* C6: get_block clamps and warns rather than fails: whatever palette_idx and
\* tile_idx an entry holds, an index outside 0..12 (palette) or 0..1023 (tile)
\* is replaced by 0 with a warning, every lookup tiles[pal_idx][tile_idx] is
\* made with pal_idx in 0..12 and tile_idx in 0..1023, and the call does not
\* raise.
C6_ClampsEveryIndex ==
    /\ gb_pc # "IndexError"
    /\ \A i \in 1..Len(gb_lookups) :
          LET data == gb_block[i]
              look == gb_lookups[i]
          IN  /\ look.pal_idx \in 0..(PalLimit - 1)
              /\ look.tile_idx \in 0..(TileLimit - 1)
              /\ data.palette_idx \notin 0..(PalLimit - 1) =>
                    /\ look.pal_idx = 0
                    /\ \E w \in 1..Len(gb_warnings) :
                          gb_warnings[w] = [what |-> "pal", idx |-> data.palette_idx]
              /\ data.tile_idx \notin 0..(TileLimit - 1) =>
                    /\ look.tile_idx = 0
                    /\ \E w \in 1..Len(gb_warnings) :
                          gb_warnings[w] = [what |-> "tile", idx |-> data.tile_idx]

Shl3(node) == node.v * 8

\* C7: pack_colors returns one list per palette, in order, of exactly 48
\* entries, entries 3i, 3i+1, 3i+2 being the red, green and blue channels of
\* colour i, each shifted left by 3; a palette whose length is not 16 is
\* rejected by the assertion.
C7_PackedRedGreenBlue ==
    /\ pk_pc = "AssertionError" =>
          \E p \in 1..Len(pk_palettes) : Len(pk_palettes[p].v) # PaletteLen
    /\ pk_pc = "returned" =>
          /\ Len(pk_packed) = Len(pk_palettes)
          /\ \A p \in 1..Len(pk_packed) :
                /\ Len(pk_packed[p]) = 3 * PaletteLen
                /\ \A i \in 0..(PaletteLen - 1) :
                      LET color == pk_palettes[p].v[i + 1].v
                      IN  /\ pk_packed[p][3 * i + 1] = Shl3(color["red"])
                          /\ pk_packed[p][3 * i + 2] = Shl3(color["green"])
                          /\ pk_packed[p][3 * i + 3] = Shl3(color["blue"])

RECURSIVE Reach(_, _)
\* the value reached from v by the segments of path, the last one applied last
Reach(v, path) ==
    IF path = <<>> THEN Ok(v)
    ELSE LET r == Reach(v, SubSeq(path, 1, Len(path) - 1))
         IN  IF r.err # "none" THEN r ELSE PyGetItem(r.val, path[Len(path)])

\* C10: get_attribute_by_path returns the value reached by indexing with each
\* segment of the path in order (the value itself for the empty path), fails
\* without a partial result when a segment is absent, leaves the structure it
\* walks unchanged, and gives the same result when called again.
C10_PathWalk ==
    ga_pc \in {"once", "twice"} =>
        /\ ga_structure = ga_given
        /\ ga_first = Reach(ga_given, ga_path)
        /\ ga_first.err # "none" => ga_first.val = PyNone
        /\ ga_pc = "twice" => ga_result = ga_first

C10_Witness ==
    /\ ga_pc = "twice"
    /\ ga_path = <<Key("a"), Key("b"), Index(-1)>>
    /\ ga_result = Ok(PyInt(8))

----------------------------------------------------------------------------
(* Properties of the event model under the codec                           *)

Events(log, kind) == {i \in 1..Len(log) : log[i].ev = kind}
Nearest(e) == e.parents[Len(e.parents)]
FieldIndex(fields, name) == CHOOSE i \in 1..Len(fields) : fields[i][1] = name
DeclaredBefore(fields, name) == {fields[i][1] : i \in 1..(FieldIndex(fields, name) - 1)}

\* C1: the variant of event.signpost_value is decided by the nearest
\* ancestor's decoded 'type' alone: 'script' when it is below 5, 'item' from 5
\* on; the name is always a declared variant, so no decode fails with
\* UnknownVariantError.
C1_DiscriminantByType ==
    /\ dc_out.err # "UnknownVariantError"
    /\ \A i \in Events(dc_out.log, "name_get") :
          LET e == dc_out.log[i]
              t == Nearest(e).v["type"].v
          IN  /\ e.err = "none"
              /\ e.name \in DOMAIN signpost_value_type.subtypes
              /\ t < 5 => e.name = "script"
              /\ t >= 5 => e.name = "item"

C1_Witness ==
    /\ dc_pc = "decoded"
    /\ \E i, j \in Events(dc_out.log, "name_get") :
          /\ Nearest(dc_out.log[i]).v["type"].v = 5 /\ dc_out.log[i].name = "item"
          /\ Nearest(dc_out.log[j]).v["type"].v = 4 /\ dc_out.log[j].name = "script"

\* C2: an array sized by a count field of the event header decodes exactly as
\* many elements as the count says, in sequence, and does not fail; a count of
\* 0 gives the empty sequence.
C2_ArrayLengthIsCount ==
    dc_pc = "decoded" /\ dc_task.type = "event.event_header" /\ dc_task.deep =>
        /\ \A i \in Events(dc_out.log, "size") :
              LET e == dc_out.log[i]
              IN  e.err = "none" /\ e.n = Nearest(e).v[e.path[1].e]
        /\ \A i \in Events(dc_out.log, "array") :
              LET e == dc_out.log[i]
              IN  e.err = "none" /\ e.decoded = e.n
        /\ dc_out.err = "none" =>
              /\ Len(dc_out.val.v["persons"].v) = dc_task.rom[1]
              /\ Len(dc_out.val.v["warps"].v) = dc_task.rom[2]
              /\ Len(dc_out.val.v["triggers"].v) = dc_task.rom[3]
              /\ Len(dc_out.val.v["signposts"].v) = dc_task.rom[4]

\* C3: decode(T, encode(T, v)) = v for every type T of the event model and
\* every value v shaped for T.
C3_RoundTrip ==
    rt_pc = "back" => rt_dec.err = "none" /\ rt_dec.val = rt_value

\* C4: whenever a size path or the union's discriminant is evaluated, the
\* field it reads is already decoded: the nearest ancestor holds exactly the
\* fields declared before the one being decoded, 'type' among them for
\* 'value', the count among them for each array pointer.
C4_ReadsDecodedFields ==
    /\ \A i \in Events(dc_out.log, "name_get") :
          LET e == dc_out.log[i]
          IN  /\ e.parents # <<>>
              /\ Nearest(e).k = "dict"
              /\ DOMAIN Nearest(e).v = DeclaredBefore(signpost_type.fields, "value")
              /\ "type" \in DOMAIN Nearest(e).v
    /\ \A i \in Events(dc_out.log, "size") :
          LET e == dc_out.log[i]
              pointer == CHOOSE f \in 1..Len(event_header_type.fields) :
                            /\ event_header_type.fields[f][2] \in DOMAIN default_model
                            /\ default_model[event_header_type.fields[f][2]].datatype = e.array
          IN  /\ e.parents # <<>>
              /\ Nearest(e).k = "dict"
              /\ DOMAIN Nearest(e).v =
                    DeclaredBefore(event_header_type.fields, event_header_type.fields[pointer][1])
              /\ e.path[1].e \in DOMAIN Nearest(e).v

C4_Witness ==
    /\ dc_pc = "decoded"
    /\ Events(dc_out.log, "name_get") # {}
    /\ \E i \in Events(dc_out.log, "size") : dc_out.log[i].array = "event.signpost_array"

\* C5: every type name met while decoding from event.event_header is a
\* primitive scalar or a key of default_model, so resolving it never fails
\* with UnknownTypeError.
C5_NamesResolve ==
    dc_pc = "decoded" =>
        /\ dc_out.err # "UnknownTypeError"
        /\ \A i \in Events(dc_out.log, "resolve") :
              dc_out.log[i].name \in ScalarNames \cup DOMAIN default_model

Labels(run) == {run.out.log[i] : i \in Events(run.out.log, "label")}

\* C8: the label of each array pointer type is the same triple whatever the
\* project, context and parents: ('persons', 2, False), ('warps', 2, False),
\* ('triggers', 2, False), ('signposts', 2, False); two event headers encoded
\* in one run get the identical label for their person arrays.
C8_LabelsAreFixed ==
    /\ \A r \in 1..Len(en_runs) : \A e \in Labels(en_runs[r]) :
          e.label = CASE e.pointer = "event.person_array_pointer" -> <<"persons", 2, FALSE>>
                      [] e.pointer = "event.warp_array_pointer" -> <<"warps", 2, FALSE>>
                      [] e.pointer = "event.trigger_array_pointer" -> <<"triggers", 2, FALSE>>
                      [] e.pointer = "event.signpost_array_pointer" -> <<"signposts", 2, FALSE>>
    /\ \A r, s \in 1..Len(en_runs) :
          \A e \in Labels(en_runs[r]), f \in Labels(en_runs[s]) :
              e.pointer = f.pointer => e.label = f.label

C8_Witness ==
    /\ Len(en_runs) = 2
    /\ en_runs[1].value # en_runs[2].value
    /\ en_runs[1].env # en_runs[2].env
    /\ \A r \in 1..2 : \E e \in Labels(en_runs[r]) : e.pointer = "event.person_array_pointer"
    /\ en_runs[1].value.v["person_cnt"].v = 0
    /\ en_runs[2].out.err = "none"
    /\ \E k \in 1..Len(en_runs[2].out.relocs) :
          en_runs[2].out.relocs[k].label = <<"warps", 2, FALSE>>

\* C9: event.signpost_item lays item, flag and amount out contiguously from
\* the low-order bits of its u32: item in bits 0..15, flag in 16..23, amount in
\* 24..31; the widths sum to 32, no decode fails with BitfieldOverflowError,
\* and item + flag * 2^16 + amount * 2^24 is the word decoded (stated on the
\* word's four bytes, least significant first).
C9_BitfieldLayout ==
    LET m == signpost_item_type.members
    IN  /\ member_lo(m, FieldIndex(m, "item")) = 0
        /\ member_lo(m, FieldIndex(m, "flag")) = 16
        /\ member_lo(m, FieldIndex(m, "amount")) = 24
        /\ members_width(m) = 32
        /\ members_width(m) <= 8 * ScalarWidth(signpost_item_type.backing)
        /\ dc_out.err # "BitfieldOverflowError"
        /\ dc_pc = "decoded" /\ dc_task.type = "event.signpost_item" =>
              /\ dc_out.err = "none"
              /\ LET item == dc_out.val.v["item"].v
                     flag == dc_out.val.v["flag"].v
                     amount == dc_out.val.v["amount"].v
                 IN  /\ item \in 0..(Pow2(16) - 1)
                     /\ flag \in 0..(Pow2(8) - 1)
                     /\ amount \in 0..(Pow2(8) - 1)
                     /\ <<item % 256, item \div 256, flag, amount>> = dc_task.rom

C9_Witness ==
    /\ dc_pc = "decoded"
    /\ dc_task.type = "event.signpost_item"
    /\ dc_task.rom = <<1, 128, 255, 128>>
    /\ dc_out.val.v["item"].v = 32769
    /\ dc_out.val.v["amount"].v = 128

====
